---- MODULE Spec2Model ----
(***************************************************************************)
(* Model of the voxify request-processing core: ProcessService (worker     *)
(* pool, handle state machine, validate, update, fail, sendNotify, Init),  *)
(* the Handlers.sendRequest admission point, the SQLite store operations   *)
(* the core calls, and the Notifications consumer.                         *)
(***************************************************************************)
EXTENDS Integers, Sequences, FiniteSets, TLC

\* ---- program constants ------------------------------------------------
notifyBuffer == 8
workerPoolSize == 2

\* ---- bounds of the model ------------------------------------------------
\* Spec: sendRequest calls a worker receives, calls that return an error,
\* failures of a Store, Downloader or Builder call
MaxRequests == 2
MaxRejected == 1
MaxFaults == 2
\* SpecRecovery, SpecShutdown: processes left in_progress by the previous run,
\* Requests a worker receives, failures
MaxStale == 10
AppRequests == 1
AppFaults == 2

Urls == {"a", "b"}
Workers == 1..workerPoolSize
MaxOf(a, b) == IF a > b THEN a ELSE b
\* the number of a sendRequest call stands for the token of its Request; 0 is
\* the Request of a process of a previous run
ReqIDs == 1..(MaxOf(MaxRequests, AppRequests) + MaxRejected)

\* ---- entities.Step / entities.Status ------------------------------------
StepCreating == "creating"
StepDownloading == "downloading"
StepPublishing == "publishing"
StatusInProgress == "in_progress"
StatusSuccess == "success"
StatusFailed == "failed"

StepRank(s) == CASE s = StepCreating -> 1 [] s = StepDownloading -> 2 [] OTHER -> 3
Terminal(st) == st \in {StatusSuccess, StatusFailed}

\* ---- errors: an error is the chain of its wrapped parts, nil is <<>> ----
NoError == << >>
ErrNoMatchingPlatform == <<"ErrNoMatchingPlatform">>
ErrDownloadFailed == <<"ErrDownloadFailed">>
ErrEpisodeInProgress == <<"ErrEpisodeInProgress">>
ErrEpisodeExists == <<"ErrEpisodeExists">>
ErrProcessInterrupted == <<"ErrProcessInterrupted">>
ErrProcessUpsert == <<"ErrProcessUpsert">>
ErrProcessGetByURL == <<"ErrProcessGetByURL">>
EpisodeGetByOriginalURL == <<"EpisodeGetByOriginalURL">>
ErrEpisodeCreate == <<"ErrEpisodeCreate">>
ErrProcessGetByStatus == <<"ErrProcessGetByStatus">>
\* errors of the collaborators behind the interfaces
StoreErr == <<"store error">>
PlatformErr == <<"platform error">>
BuildErr == <<"build error">>

\* fmt.Errorf("%w: %w", a, b)
Wrap(a, b) == a \o b
\* errors.Is(e, target) for a sentinel target
ErrorsIs(e, target) == \E i \in 1..Len(e) : e[i] = target[1]

VARIABLES
    ctxDone,     \* the shutdown signal (ctx.Done() is closed)
    pc,          \* position of each worker goroutine
    cur,         \* ReqID of the Request a worker is handling, 0 if none
    err,         \* the local err of handle() of each worker
    requests,    \* the sendRequest calls made so far, by ReqID: the Request, what
                 \* the call returned, whether the URL had an episode then
    mem,         \* the Process object handle() built for each Request
    processes,   \* store: rows of table processes, index = id
    episodes,    \* store: rows of table episodes (original_url), index = id
    notify,      \* the notify channel: the pointer sent and what it pointed to
    consumer,    \* position of the Notifications goroutine
    emitted,     \* per Request: the snapshots sendNotify was called with
    calls,       \* per Request: number of Download, Build and ProcessUpsert calls,
                 \* and the count ProcessCountByUrlAndStatus returned (0: none)
    faults,      \* number of failures injected so far
    initPc,      \* position of App.Start / ProcessService.Init
    initList,    \* the ids Init() got from ProcessGetByStatus, not yet failed
    initErr,     \* the error Init() returned
    limit        \* the workload of this run

vars == <<ctxDone, pc, cur, err, requests, mem, processes, episodes, notify,
          consumer, emitted, calls, faults, initPc, initList, initErr, limit>>

workerVars == <<pc, cur, err, mem>>
storeVars == <<processes, episodes>>
initVars == <<initPc, initList, initErr, limit>>
histVars == <<emitted, calls>>

NoProcess == [ID |-> -1]

\* mutant: the Process starts at the wrong step
NewProcess_Downloading(r, url, force) ==
    [ID |-> 0, ReqID |-> r, Url |-> url, Force |-> force,
     Step |-> StepDownloading, Status |-> StatusInProgress,
     Error |-> NoError, Episode |-> 0]

\* entities.Process built at the top of handle()
NewProcess(r, url, force) ==
    [ID |-> 0, ReqID |-> r, Url |-> url, Force |-> force,
     Step |-> StepCreating, Status |-> StatusInProgress,
     Error |-> NoError, Episode |-> 0]

\* ---- store ---------------------------------------------------------------
\* SQLiteStore.ProcessUpsert: INSERT when ID = 0, UPDATE otherwise; the id the
\* process carries afterwards, and the rows afterwards
ProcessUpsertID(rows, p) == IF p.ID = 0 THEN Len(rows) + 1 ELSE p.ID
\* mutant: the statements do not write episode_id
ProcessUpsert_DropsEpisode(rows, p) ==
    IF p.ID = 0
    THEN Append(rows, [p EXCEPT !.ID = Len(rows) + 1, !.Episode = 0])
    ELSE [rows EXCEPT ![p.ID] = [p EXCEPT !.Episode = 0]]
ProcessUpsert(rows, p) ==
    IF p.ID = 0
    THEN Append(rows, [p EXCEPT !.ID = Len(rows) + 1])
    ELSE [rows EXCEPT ![p.ID] = p]

\* mutant: the query is SELECT EXISTS(...) and returns 1 for any number of rows
ProcessCountByUrlAndStatus_Exists(rows, url, status) ==
    IF \E i \in 1..Len(rows) : rows[i].Url = url /\ rows[i].Status = status
    THEN 1 ELSE 0
\* SQLiteStore.ProcessCountByUrlAndStatus
ProcessCountByUrlAndStatus(rows, url, status) ==
    Cardinality({i \in 1..Len(rows) : rows[i].Url = url /\ rows[i].Status = status})

\* SQLiteStore.ProcessGetByStatus: ORDER BY created_at DESC
RECURSIVE IdsByStatusDesc(_, _, _)
IdsByStatusDesc(rows, status, i) ==
    IF i = 0 THEN << >>
    ELSE IF rows[i].Status = status
         THEN <<i>> \o IdsByStatusDesc(rows, status, i - 1)
         ELSE IdsByStatusDesc(rows, status, i - 1)
ProcessGetByStatus(rows, status) == IdsByStatusDesc(rows, status, Len(rows))

\* SQLiteStore.EpisodeGetByOriginalUrl (the ids of the matching episodes)
EpisodeGetByOriginalUrl(eps, url) == {i \in 1..Len(eps) : eps[i] = url}

\* ---- ProcessService.sendNotify -------------------------------------------
\* mutant: a plain send, notify <- p, which waits while the buffer is full
sendNotifyCases_Blocking(full, done) == IF ~full THEN {"sent"} ELSE {}
\* the cases of the select that can proceed: the send when the buffer has room,
\* <-ctx.Done() when the context is cancelled, default when neither can
sendNotifyCases(full, done) ==
    (IF ~full THEN {"sent"} ELSE {}) \cup (IF done THEN {"dropCtx"} ELSE {})
      \cup (IF full /\ ~done THEN {"dropFull"} ELSE {})

\* the pointer put on the channel, with the Process as it is at that moment
Notification(p) == [ref |-> p.ReqID, snap |-> p]
\* what a call of sendNotify is remembered by
Snapshot(p) == [ID |-> p.ID, Step |-> p.Step, Status |-> p.Status, Episode |-> p.Episode]

\* mutant: the send is made from a goroutine of its own (go func() { notify <- p }()),
\* so it lands anywhere among the notifications still waiting
sendNotify_Unordered(p) ==
    \E c \in sendNotifyCases(Len(notify) >= notifyBuffer, ctxDone), i \in 0..Len(notify) :
        /\ notify' = IF c = "sent"
                     THEN SubSeq(notify, 1, i) \o <<Notification(p)>>
                            \o SubSeq(notify, i + 1, Len(notify))
                     ELSE notify
        /\ emitted' = [emitted EXCEPT ![p.ReqID] =
               Append(@, Snapshot(p))]
sendNotify(p) ==
    \E c \in sendNotifyCases(Len(notify) >= notifyBuffer, ctxDone) :
        /\ notify' = IF c = "sent" THEN Append(notify, Notification(p)) ELSE notify
        /\ emitted' = [emitted EXCEPT ![p.ReqID] =
               Append(@, Snapshot(p))]

\* ---- Handlers.sendRequest and the receive of ProcessService.worker ----------
\* The intake channel is unbuffered: a send and a receive happen together.
\* requests[c] is the c-th sendRequest call and what it returned.

\* Handlers.Url: the message it replies with, from what sendRequest returned.
\* msg starts as MsgDownloadStarted; the errors.Is(err, errProcessorBusy) test
\* assigns MsgDownloadBusy; the err != nil test after it assigns
\* MsgSomethingWentWrong
MsgDownloadStarted == "MsgDownloadStarted"
MsgDownloadBusy == "MsgDownloadBusy"
MsgSomethingWentWrong == "MsgSomethingWentWrong"
UrlReply(result) ==
    LET msg0 == MsgDownloadStarted
        msg1 == IF result = "errProcessorBusy" THEN MsgDownloadBusy ELSE msg0
        msg2 == IF result # "nil" THEN MsgSomethingWentWrong ELSE msg1
    IN msg2

\* the rows of a URL the Store holds as in_progress while no worker is handling
\* their Process: fail() could not persist them as Failed
StuckRows(url) ==
    {i \in 1..Len(processes) :
        /\ processes[i].Url = url /\ processes[i].Status = StatusInProgress
        /\ \A w \in Workers : cur[w] = 0 \/ mem[cur[w]].ID # i}

\* the Requests whose handle() has returned
Finished ==
    {c \in 1..Len(requests) :
        requests[c].result = "nil" /\ \A w \in Workers : cur[w] # c}

\* URLs are interchangeable: the first Request names "a"
NextUrls == IF requests = << >> THEN {"a"} ELSE Urls
\* the sendRequest calls that returned nil, and those that returned an error
Admitted == {c \in 1..Len(requests) : requests[c].result = "nil"}
Rejected == {c \in 1..Len(requests) : requests[c].result # "nil"}
\* mutant: the worker receives the next Request while handle() is running
FirstIdle_WhileHandling(w) == w = 1
\* the workers are interchangeable: the Request goes to the first one receiving
FirstIdle(w) == pc[w] = "idle" /\ \A v \in Workers : pc[v] = "idle" => w <= v

\* case h.processor.In() <- req  together with  case req := <-s.in, req.ID =
\* randtoken.New(10) and the construction of the Process in handle()
sendRequest(w, url, force) ==
    /\ Cardinality(Admitted) < limit.requests
    /\ url \in NextUrls
    /\ FirstIdle(w)
    /\ LET r == Len(requests) + 1
       IN /\ requests' = Append(requests, [Url |-> url, Force |-> force, result |-> "nil",
                                           reply |-> UrlReply("nil"),
                                           existed |-> EpisodeGetByOriginalUrl(episodes, url) # {},
                                           stuck |-> StuckRows(url) # {},
                                           after |-> Finished])
          /\ mem' = [mem EXCEPT ![r] = NewProcess(r, url, force)]
          /\ cur' = [cur EXCEPT ![w] = r]
    /\ pc' = [pc EXCEPT ![w] = "update"]
    /\ UNCHANGED <<ctxDone, err, storeVars, notify, consumer, histVars, faults, initVars>>

\* mutant: the intake channel has a buffer, the send succeeds with no receiver
sendRequestBusy_Buffered(url, force) ==
    /\ initPc = "started"
    /\ Cardinality(Rejected) < limit.rejected
    /\ \A w \in Workers : pc[w] # "idle"
    /\ requests' = Append(requests, [Url |-> url, Force |-> force, result |-> "nil",
                                     reply |-> UrlReply("nil"),
                                     existed |-> EpisodeGetByOriginalUrl(episodes, url) # {},
                                     stuck |-> StuckRows(url) # {},
                                     after |-> Finished])
    /\ UNCHANGED <<ctxDone, workerVars, storeVars, notify, consumer, histVars,
                   faults, initVars>>

\* case <-time.After(2s): no worker was receiving for the whole timeout
sendRequestBusy(url, force) ==
    /\ initPc = "started"
    /\ Cardinality(Rejected) < limit.rejected
    /\ \A w \in Workers : pc[w] # "idle"
    /\ requests' = Append(requests, [Url |-> url, Force |-> force, result |-> "errProcessorBusy",
                                     reply |-> UrlReply("errProcessorBusy"),
                                     existed |-> EpisodeGetByOriginalUrl(episodes, url) # {},
                                     stuck |-> StuckRows(url) # {},
                                     after |-> Finished])
    /\ UNCHANGED <<ctxDone, workerVars, storeVars, notify, consumer, histVars,
                   faults, initVars>>

\* case <-ctx.Done()
sendRequestCanceled(url, force) ==
    /\ initPc = "started"
    /\ Cardinality(Rejected) < limit.rejected
    /\ ctxDone
    /\ requests' = Append(requests, [Url |-> url, Force |-> force, result |-> "context done",
                                     reply |-> UrlReply("context done"),
                                     existed |-> EpisodeGetByOriginalUrl(episodes, url) # {},
                                     stuck |-> StuckRows(url) # {},
                                     after |-> Finished])
    /\ UNCHANGED <<ctxDone, workerVars, storeVars, notify, consumer, histVars,
                   faults, initVars>>

\* ---- ProcessService.worker -------------------------------------------------
\* case <-ctx.Done(): return
workerStop(w) ==
    /\ pc[w] = "idle"
    /\ ctxDone
    /\ pc' = [pc EXCEPT ![w] = "stopped"]
    /\ UNCHANGED <<ctxDone, cur, err, mem, requests, storeVars, notify, consumer,
                   histVars, faults, initVars>>

\* ---- ProcessService.update ---------------------------------------------
\* mutant: handle() calls fail() after the update of StatusSuccess returned nil
AfterUpdate_FailAfterSuccess(p) ==
    IF p.Status = StatusSuccess THEN "fail"
    ELSE IF p.Step = StepCreating THEN "validate"
    ELSE IF p.Step = StepDownloading THEN "download"
    ELSE "build"

\* mutant: handle() builds right after the update of StepDownloading
AfterUpdate_SkipsDownload(p) ==
    IF p.Status = StatusSuccess THEN "idle"
    ELSE IF p.Step = StepCreating THEN "validate"
    ELSE "build"

\* where handle() goes after an update() that returned nil
AfterUpdate(p) ==
    IF p.Status = StatusSuccess THEN "idle"
    ELSE IF p.Step = StepCreating THEN "validate"
    ELSE IF p.Step = StepDownloading THEN "download"
    ELSE "build"

\* mutant: update() tries ProcessUpsert again when it fails
update_RetriesOnError(w) ==
    /\ pc[w] = "update"
    /\ LET r == cur[w]
           p == [mem[r] EXCEPT !.ID = ProcessUpsertID(processes, mem[r])]
       IN \/ /\ processes' = ProcessUpsert(processes, mem[r])
             /\ mem' = [mem EXCEPT ![r] = p]
             /\ sendNotify(p)
             /\ pc' = [pc EXCEPT ![w] = AfterUpdate(p)]
             /\ cur' = [cur EXCEPT ![w] = IF AfterUpdate(p) = "idle" THEN 0 ELSE @]
             /\ UNCHANGED <<err, faults>>
          \/ /\ faults < limit.faults
             /\ faults' = faults + 1
             /\ UNCHANGED <<pc, err, processes, mem, cur, notify, emitted>>
    /\ calls' = [calls EXCEPT ![cur[w]].Upsert = @ + 1]
    /\ UNCHANGED <<ctxDone, requests, episodes, consumer, initVars>>

\* mutant: update() notifies before it looks at the error of ProcessUpsert
update_NotifiesOnError(w) ==
    /\ pc[w] = "update"
    /\ LET r == cur[w]
           p == [mem[r] EXCEPT !.ID = ProcessUpsertID(processes, mem[r])]
       IN \/ /\ processes' = ProcessUpsert(processes, mem[r])
             /\ mem' = [mem EXCEPT ![r] = p]
             /\ sendNotify(p)
             /\ pc' = [pc EXCEPT ![w] = AfterUpdate(p)]
             /\ cur' = [cur EXCEPT ![w] = IF AfterUpdate(p) = "idle" THEN 0 ELSE @]
             /\ UNCHANGED <<err, faults>>
          \/ /\ faults < limit.faults
             /\ faults' = faults + 1
             /\ err' = [err EXCEPT ![w] = Wrap(ErrProcessUpsert, StoreErr)]
             /\ pc' = [pc EXCEPT ![w] = "fail"]
             /\ sendNotify(mem[r])
             /\ UNCHANGED <<processes, mem, cur>>
    /\ calls' = [calls EXCEPT ![cur[w]].Upsert = @ + 1]
    /\ UNCHANGED <<ctxDone, requests, episodes, consumer, initVars>>

\* update(): ProcessUpsert, then sendNotify unless the upsert failed
update(w) ==
    /\ pc[w] = "update"
    /\ LET r == cur[w]
           p == [mem[r] EXCEPT !.ID = ProcessUpsertID(processes, mem[r])]
       IN \/ /\ processes' = ProcessUpsert(processes, mem[r])
             /\ mem' = [mem EXCEPT ![r] = p]
             /\ sendNotify(p)
             /\ pc' = [pc EXCEPT ![w] = AfterUpdate(p)]
             /\ cur' = [cur EXCEPT ![w] = IF AfterUpdate(p) = "idle" THEN 0 ELSE @]
             /\ UNCHANGED <<err, faults>>
          \/ /\ faults < limit.faults
             /\ faults' = faults + 1
             /\ err' = [err EXCEPT ![w] = Wrap(ErrProcessUpsert, StoreErr)]
             /\ pc' = [pc EXCEPT ![w] = "fail"]
             /\ UNCHANGED <<processes, mem, cur, notify, emitted>>
    /\ calls' = [calls EXCEPT ![cur[w]].Upsert = @ + 1]
    /\ UNCHANGED <<ctxDone, requests, episodes, consumer, initVars>>

\* ---- ProcessService.validate --------------------------------------------
\* mutant: the candidate is counted twice
validateCount_OffByOne(count) == IF count > 2 THEN ErrEpisodeInProgress ELSE NoError
\* mutant: the comparison is reversed (count < 1)
validateCount_Reversed(count) == IF count < 1 THEN ErrEpisodeInProgress ELSE NoError
\* the in-progress check, given the count the store returned
validateCount(count) == IF count > 1 THEN ErrEpisodeInProgress ELSE NoError
\* mutant: one existing episode is let through
validateExisting_OffByOne(existing) == IF Cardinality(existing) > 1 THEN ErrEpisodeExists ELSE NoError
\* the existing-episode check, given the episodes the store returned
validateExisting(existing) == IF Cardinality(existing) > 0 THEN ErrEpisodeExists ELSE NoError

\* mutant: Force is tested first and skips the in-progress check as well
validate_ForceSkipsCount(w) ==
    /\ pc[w] = "validate"
    /\ LET r == cur[w]
           count == ProcessCountByUrlAndStatus(processes, mem[r].Url, StatusInProgress)
           e == validateCount(count)
       IN \/ /\ e # NoError
             /\ ~mem[r].Force
             /\ err' = [err EXCEPT ![w] = e]
             /\ pc' = [pc EXCEPT ![w] = "fail"]
             /\ calls' = [calls EXCEPT ![r].Count = count]
             /\ UNCHANGED <<mem, faults>>
          \/ /\ mem[r].Force
             /\ mem' = [mem EXCEPT ![r].Step = StepDownloading]
             /\ pc' = [pc EXCEPT ![w] = "update"]
             /\ calls' = [calls EXCEPT ![r].Count = count]
             /\ UNCHANGED <<err, faults>>
          \/ /\ e = NoError
             /\ ~mem[r].Force
             /\ pc' = [pc EXCEPT ![w] = "validateEpisode"]
             /\ calls' = [calls EXCEPT ![r].Count = count]
             /\ UNCHANGED <<err, mem, faults>>
          \/ /\ faults < limit.faults
             /\ faults' = faults + 1
             /\ err' = [err EXCEPT ![w] = Wrap(ErrProcessGetByURL, StoreErr)]
             /\ pc' = [pc EXCEPT ![w] = "fail"]
             /\ UNCHANGED <<mem, calls>>
    /\ UNCHANGED <<ctxDone, cur, requests, storeVars, notify, consumer, emitted, initVars>>
\* validate() up to the Force test: ProcessCountByUrlAndStatus and the decision
validate(w) ==
    /\ pc[w] = "validate"
    /\ LET r == cur[w]
           count == ProcessCountByUrlAndStatus(processes, mem[r].Url, StatusInProgress)
           e == validateCount(count)
       IN \/ /\ e # NoError
             /\ err' = [err EXCEPT ![w] = e]
             /\ pc' = [pc EXCEPT ![w] = "fail"]
             /\ calls' = [calls EXCEPT ![r].Count = count]
             /\ UNCHANGED <<mem, faults>>
          \/ /\ e = NoError
             /\ mem[r].Force
             /\ mem' = [mem EXCEPT ![r].Step = StepDownloading]
             /\ pc' = [pc EXCEPT ![w] = "update"]
             /\ calls' = [calls EXCEPT ![r].Count = count]
             /\ UNCHANGED <<err, faults>>
          \/ /\ e = NoError
             /\ ~mem[r].Force
             /\ pc' = [pc EXCEPT ![w] = "validateEpisode"]
             /\ calls' = [calls EXCEPT ![r].Count = count]
             /\ UNCHANGED <<err, mem, faults>>
          \/ /\ faults < limit.faults
             /\ faults' = faults + 1
             /\ err' = [err EXCEPT ![w] = Wrap(ErrProcessGetByURL, StoreErr)]
             /\ pc' = [pc EXCEPT ![w] = "fail"]
             /\ UNCHANGED <<mem, calls>>
    /\ UNCHANGED <<ctxDone, cur, requests, storeVars, notify, consumer, emitted, initVars>>

\* mutant: a failed episode lookup is logged and taken as no Episode found
validateEpisode_IgnoresError(w) ==
    /\ pc[w] = "validateEpisode"
    /\ LET r == cur[w]
           e == validateExisting(EpisodeGetByOriginalUrl(episodes, mem[r].Url))
       IN \/ /\ e # NoError
             /\ err' = [err EXCEPT ![w] = e]
             /\ pc' = [pc EXCEPT ![w] = "fail"]
             /\ UNCHANGED <<mem, faults>>
          \/ /\ e = NoError
             /\ mem' = [mem EXCEPT ![r].Step = StepDownloading]
             /\ pc' = [pc EXCEPT ![w] = "update"]
             /\ UNCHANGED <<err, faults>>
          \/ /\ faults < limit.faults
             /\ faults' = faults + 1
             /\ mem' = [mem EXCEPT ![r].Step = StepDownloading]
             /\ pc' = [pc EXCEPT ![w] = "update"]
             /\ UNCHANGED err
    /\ UNCHANGED <<ctxDone, cur, requests, storeVars, notify, consumer, histVars, initVars>>
\* the rest of validate(): EpisodeGetByOriginalUrl and the decision
validateEpisode(w) ==
    /\ pc[w] = "validateEpisode"
    /\ LET r == cur[w]
           e == validateExisting(EpisodeGetByOriginalUrl(episodes, mem[r].Url))
       IN \/ /\ e # NoError
             /\ err' = [err EXCEPT ![w] = e]
             /\ pc' = [pc EXCEPT ![w] = "fail"]
             /\ UNCHANGED <<mem, faults>>
          \/ /\ e = NoError
             /\ mem' = [mem EXCEPT ![r].Step = StepDownloading]
             /\ pc' = [pc EXCEPT ![w] = "update"]
             /\ UNCHANGED <<err, faults>>
          \/ /\ faults < limit.faults
             /\ faults' = faults + 1
             /\ err' = [err EXCEPT ![w] = Wrap(EpisodeGetByOriginalURL, StoreErr)]
             /\ pc' = [pc EXCEPT ![w] = "fail"]
             /\ UNCHANGED mem
    /\ UNCHANGED <<ctxDone, cur, requests, storeVars, notify, consumer, histVars, initVars>>

\* ---- EpisodeService.Download, called from handle() ------------------------
\* the errors Download returns: no platform matches, the platform fails, the
\* episode cannot be stored
DownloadErrors ==
    {ErrNoMatchingPlatform, Wrap(ErrDownloadFailed, PlatformErr), Wrap(ErrEpisodeCreate, StoreErr)}

\* mutant: handle() sets Step = StepPublishing before it looks at the error
download_StepBeforeError(w) ==
    /\ pc[w] = "download"
    /\ LET r == cur[w]
       IN /\ calls' = [calls EXCEPT ![r].Download = @ + 1]
          /\ \/ /\ episodes' = Append(episodes, mem[r].Url)
                /\ mem' = [mem EXCEPT ![r].Episode = Len(episodes) + 1,
                                      ![r].Step = StepPublishing]
                /\ pc' = [pc EXCEPT ![w] = "update"]
                /\ UNCHANGED <<err, faults>>
             \/ /\ faults < limit.faults
                /\ faults' = faults + 1
                /\ \E e \in DownloadErrors : err' = [err EXCEPT ![w] = e]
                /\ mem' = [mem EXCEPT ![r].Episode = 0, ![r].Step = StepPublishing]
                /\ pc' = [pc EXCEPT ![w] = "fail"]
                /\ UNCHANGED episodes
    /\ UNCHANGED <<ctxDone, cur, requests, processes, notify, consumer, emitted, initVars>>

\* process.Episode, err = s.downloader.Download(...); on success the episode is
\* in the store and handle() sets Step = StepPublishing
download(w) ==
    /\ pc[w] = "download"
    /\ LET r == cur[w]
       IN /\ calls' = [calls EXCEPT ![r].Download = @ + 1]
          /\ \/ /\ episodes' = Append(episodes, mem[r].Url)
                /\ mem' = [mem EXCEPT ![r].Episode = Len(episodes) + 1,
                                      ![r].Step = StepPublishing]
                /\ pc' = [pc EXCEPT ![w] = "update"]
                /\ UNCHANGED <<err, faults>>
             \/ /\ faults < limit.faults
                /\ faults' = faults + 1
                /\ \E e \in DownloadErrors : err' = [err EXCEPT ![w] = e]
                /\ mem' = [mem EXCEPT ![r].Episode = 0]
                /\ pc' = [pc EXCEPT ![w] = "fail"]
                /\ UNCHANGED episodes
    /\ UNCHANGED <<ctxDone, cur, requests, processes, notify, consumer, emitted, initVars>>

\* ---- Builder.Build, called from handle() ----------------------------------
\* on success handle() sets Status = StatusSuccess
build(w) ==
    /\ pc[w] = "build"
    /\ LET r == cur[w]
       IN /\ calls' = [calls EXCEPT ![r].Build = @ + 1]
          /\ \/ /\ mem' = [mem EXCEPT ![r].Status = StatusSuccess]
                /\ pc' = [pc EXCEPT ![w] = "update"]
                /\ UNCHANGED <<err, faults>>
             \/ /\ faults < limit.faults
                /\ faults' = faults + 1
                /\ err' = [err EXCEPT ![w] = BuildErr]
                /\ pc' = [pc EXCEPT ![w] = "fail"]
                /\ UNCHANGED mem
    /\ UNCHANGED <<ctxDone, cur, requests, storeVars, notify, consumer, emitted, initVars>>

\* ---- ProcessService.fail ---------------------------------------------
\* mutant: fail() records the error and leaves the Status
FailedProcess_KeepsStatus(p, e) == [p EXCEPT !.Error = e]
\* mutant: fail() wraps the error it is given
FailedProcess_WrapsError(p, e) ==
    [p EXCEPT !.Status = StatusFailed, !.Error = Wrap(ErrDownloadFailed, e)]
\* mutant: fail() detaches the Episode
FailedProcess_DropsEpisode(p, e) ==
    [p EXCEPT !.Status = StatusFailed, !.Error = e, !.Episode = 0]
\* process.Status = StatusFailed; process.Error = e
FailedProcess(p, e) == [p EXCEPT !.Status = StatusFailed, !.Error = e]

\* mutant: fail() returns after a failed ProcessUpsert without notifying
fail_NoNotifyOnError(w) ==
    /\ pc[w] = "fail"
    /\ LET r == cur[w]
           f == FailedProcess(mem[r], err[w])
           p == [f EXCEPT !.ID = ProcessUpsertID(processes, f)]
       IN \/ /\ processes' = ProcessUpsert(processes, f)
             /\ mem' = [mem EXCEPT ![r] = p]
             /\ sendNotify(p)
             /\ UNCHANGED faults
          \/ /\ faults < limit.faults
             /\ faults' = faults + 1
             /\ mem' = [mem EXCEPT ![r] = f]
             /\ UNCHANGED <<processes, notify, emitted>>
    /\ calls' = [calls EXCEPT ![cur[w]].Upsert = @ + 1]
    /\ err' = [err EXCEPT ![w] = NoError]
    /\ pc' = [pc EXCEPT ![w] = "idle"]
    /\ cur' = [cur EXCEPT ![w] = 0]
    /\ UNCHANGED <<ctxDone, requests, episodes, consumer, initVars>>

\* mutant: the worker returns the error of a failed handle() and leaves its loop
fail_ReturnsFromWorker(w) ==
    /\ pc[w] = "fail"
    /\ LET r == cur[w]
           f == FailedProcess(mem[r], err[w])
           p == [f EXCEPT !.ID = ProcessUpsertID(processes, f)]
       IN \/ /\ processes' = ProcessUpsert(processes, f)
             /\ mem' = [mem EXCEPT ![r] = p]
             /\ sendNotify(p)
             /\ UNCHANGED faults
          \/ /\ faults < limit.faults
             /\ faults' = faults + 1
             /\ mem' = [mem EXCEPT ![r] = f]
             /\ sendNotify(f)
             /\ UNCHANGED processes
    /\ calls' = [calls EXCEPT ![cur[w]].Upsert = @ + 1]
    /\ err' = [err EXCEPT ![w] = NoError]
    /\ pc' = [pc EXCEPT ![w] = "stopped"]
    /\ cur' = [cur EXCEPT ![w] = 0]
    /\ UNCHANGED <<ctxDone, requests, episodes, consumer, initVars>>
\* fail(): the assignments, ProcessUpsert (its error is only logged), sendNotify,
\* and the return of handle()
fail(w) ==
    /\ pc[w] = "fail"
    /\ LET r == cur[w]
           f == FailedProcess(mem[r], err[w])
           p == [f EXCEPT !.ID = ProcessUpsertID(processes, f)]
       IN \/ /\ processes' = ProcessUpsert(processes, f)
             /\ mem' = [mem EXCEPT ![r] = p]
             /\ sendNotify(p)
             /\ UNCHANGED faults
          \/ /\ faults < limit.faults
             /\ faults' = faults + 1
             /\ mem' = [mem EXCEPT ![r] = f]
             /\ sendNotify(f)
             /\ UNCHANGED processes
    /\ calls' = [calls EXCEPT ![cur[w]].Upsert = @ + 1]
    /\ err' = [err EXCEPT ![w] = NoError]
    /\ pc' = [pc EXCEPT ![w] = "idle"]
    /\ cur' = [cur EXCEPT ![w] = 0]
    /\ UNCHANGED <<ctxDone, requests, episodes, consumer, initVars>>

\* ---- Notifications.Start -------------------------------------------------
\* the Process getMessage and replyMessage read through the pointer they are
\* given: the object of handle() as it is at the time of the read (the objects
\* Init() notifies are not written to afterwards)
getMessageReads(n) == IF n.ref = 0 THEN n.snap ELSE mem[n.ref]

\* case process := <-n.notifier.Notify()
notificationsReceive ==
    /\ consumer = "running"
    /\ notify # << >>
    /\ notify' = Tail(notify)
    /\ UNCHANGED <<ctxDone, workerVars, requests, storeVars, consumer, histVars,
                   faults, initVars>>

\* case <-ctx.Done(): return
notificationsStop ==
    /\ consumer = "running"
    /\ ctxDone
    /\ consumer' = "stopped"
    /\ UNCHANGED <<ctxDone, workerVars, requests, storeVars, notify, histVars,
                   faults, initVars>>

\* ---- ProcessService.Init ---------------------------------------------
\* mutant: Init() logs the error of ProcessGetByStatus and returns nil
InitGetByStatus_IgnoresError ==
    /\ initPc = "init"
    /\ \/ /\ initList' = ProcessGetByStatus(processes, StatusInProgress)
          /\ initPc' = IF initList' = << >> THEN "ok" ELSE "loop"
          /\ UNCHANGED <<initErr, faults>>
       \/ /\ faults < limit.faults
          /\ faults' = faults + 1
          /\ initPc' = "ok"
          /\ UNCHANGED <<initList, initErr>>
    /\ UNCHANGED <<ctxDone, workerVars, requests, storeVars, notify, consumer,
                   histVars, limit>>

\* s.store.ProcessGetByStatus(ctx, StatusInProgress)
InitGetByStatus ==
    /\ initPc = "init"
    /\ \/ /\ initList' = ProcessGetByStatus(processes, StatusInProgress)
          /\ initPc' = IF initList' = << >> THEN "ok" ELSE "loop"
          /\ UNCHANGED <<initErr, faults>>
       \/ /\ faults < limit.faults
          /\ faults' = faults + 1
          /\ initErr' = Wrap(ErrProcessGetByStatus, StoreErr)
          /\ initPc' = "failed"
          /\ UNCHANGED initList
    /\ UNCHANGED <<ctxDone, workerVars, requests, storeVars, notify, consumer,
                   histVars, limit>>

\* mutant: the loop logs a failed ProcessUpsert and goes on to the next process
InitFailProcess_ContinuesOnError ==
    /\ initPc = "loop"
    /\ LET p == FailedProcess(processes[Head(initList)], ErrProcessInterrupted)
       IN \/ /\ processes' = ProcessUpsert(processes, p)
             /\ sendNotify(p)
             /\ UNCHANGED <<initErr, faults>>
          \/ /\ faults < limit.faults
             /\ faults' = faults + 1
             /\ UNCHANGED <<processes, notify, emitted, initErr>>
    /\ initList' = Tail(initList)
    /\ initPc' = IF Tail(initList) = << >> THEN "ok" ELSE "loop"
    /\ UNCHANGED <<ctxDone, workerVars, requests, episodes, consumer, calls, limit>>

\* mutant: the loop runs in a transaction that is rolled back when a ProcessUpsert fails
InitFailProcess_RollsBack ==
    /\ initPc = "loop"
    /\ LET p == FailedProcess(processes[Head(initList)], ErrProcessInterrupted)
       IN \/ /\ processes' = ProcessUpsert(processes, p)
             /\ sendNotify(p)
             /\ initList' = Tail(initList)
             /\ initPc' = IF Tail(initList) = << >> THEN "ok" ELSE "loop"
             /\ UNCHANGED <<initErr, faults>>
          \/ /\ faults < limit.faults
             /\ faults' = faults + 1
             /\ initErr' = Wrap(ErrProcessUpsert, StoreErr)
             /\ initPc' = "failed"
             /\ processes' = [i \in 1..Len(processes) |->
                                [processes[i] EXCEPT
                                   !.Status = IF processes[i].Error = ErrProcessInterrupted
                                              THEN StatusInProgress ELSE @,
                                   !.Error = IF processes[i].Error = ErrProcessInterrupted
                                             THEN NoError ELSE @]]
             /\ UNCHANGED <<notify, emitted, initList>>
    /\ UNCHANGED <<ctxDone, workerVars, requests, episodes, consumer, calls, limit>>
\* one turn of the loop: fail the process, ProcessUpsert, sendNotify
InitFailProcess ==
    /\ initPc = "loop"
    /\ LET p == FailedProcess(processes[Head(initList)], ErrProcessInterrupted)
       IN \/ /\ processes' = ProcessUpsert(processes, p)
             /\ sendNotify(p)
             /\ initList' = Tail(initList)
             /\ initPc' = IF Tail(initList) = << >> THEN "ok" ELSE "loop"
             /\ UNCHANGED <<initErr, faults>>
          \/ /\ faults < limit.faults
             /\ faults' = faults + 1
             /\ initErr' = Wrap(ErrProcessUpsert, StoreErr)
             /\ initPc' = "failed"
             /\ UNCHANGED <<processes, notify, emitted, initList>>
    /\ UNCHANGED <<ctxDone, workerVars, requests, episodes, consumer, calls, limit>>

\* ---- App.Start ---------------------------------------------------------
\* mutant: App.Start goes on to start the services although Init() failed
appStart_IgnoresInitError ==
    /\ initPc \in {"ok", "failed"}
    /\ initPc' = "started"
    /\ consumer' = "running"
    /\ pc' = [w \in Workers |-> "idle"]
    /\ UNCHANGED <<ctxDone, cur, err, mem, requests, storeVars, notify, histVars,
                   faults, initList, initErr, limit>>

\* after processSrv.Init returned nil: notifications.Start, processSrv.Start
appStart ==
    /\ initPc = "ok"
    /\ initPc' = "started"
    /\ consumer' = "running"
    /\ pc' = [w \in Workers |-> "idle"]
    /\ UNCHANGED <<ctxDone, cur, err, mem, requests, storeVars, notify, histVars,
                   faults, initList, initErr, limit>>

\* the shutdown signal
cancel ==
    /\ ~ctxDone
    /\ ctxDone' = TRUE
    /\ UNCHANGED <<workerVars, requests, storeVars, notify, consumer, histVars,
                   faults, initVars>>

\* ---- the database a previous run left --------------------------------------
\* the first `done` processes finished with an episode for "a"; the others are
\* stale, still in_progress at the step the run was killed in
StaleStep(i) == CASE i % 3 = 1 -> StepCreating [] i % 3 = 2 -> StepDownloading
                  [] OTHER -> StepPublishing
StaleUrl(i) == IF i % 3 = 0 THEN "b" ELSE IF i % 2 = 0 THEN "a" ELSE "b"
\* a process killed while publishing had stored its episode
StaleEpisode(i, done) == IF StaleStep(i) = StepPublishing THEN done + (i \div 3) ELSE 0
StaleRow(i, done) ==
    IF i <= done
    THEN [ID |-> i, ReqID |-> 0, Url |-> "a", Force |-> FALSE, Step |-> StepPublishing,
          Status |-> StatusSuccess, Error |-> NoError, Episode |-> i]
    ELSE [ID |-> i, ReqID |-> 0, Url |-> StaleUrl(i), Force |-> FALSE,
          Step |-> StaleStep(i), Status |-> StatusInProgress, Error |-> NoError,
          Episode |-> StaleEpisode(i, done)]
\* table episodes next to n such processes
StaleEpisodes(n, done) ==
    [k \in 1..(IF n <= done THEN n ELSE done + (n \div 3)) |-> IF k <= done THEN "a" ELSE "b"]

\* ---- Spec: the service running, before shutdown -----------------------------
\* on a fresh database, or on one that holds a finished process
InitCommon ==
    /\ ctxDone = FALSE
    /\ cur = [w \in Workers |-> 0]
    /\ err = [w \in Workers |-> NoError]
    /\ requests = << >>
    /\ mem = [r \in ReqIDs |-> NoProcess]
    /\ calls = [r \in ReqIDs |-> [Download |-> 0, Build |-> 0, Upsert |-> 0, Count |-> 0]]
    /\ faults = 0
    /\ initList = << >>
    /\ initErr = NoError

Init ==
    /\ InitCommon
    /\ notify = << >>
    /\ emitted = [r \in {0} \cup ReqIDs |-> << >>]
    /\ pc = [w \in Workers |-> "idle"]
    /\ \E done \in 0..1 :
         /\ processes = [i \in 1..done |-> StaleRow(i, done)]
         /\ episodes = [i \in 1..done |-> "a"]
    /\ consumer = "running"
    /\ initPc = "started"
    /\ limit = [requests |-> MaxRequests, rejected |-> MaxRejected, faults |-> MaxFaults]

Handle ==
    \/ \E w \in Workers, u \in Urls, f \in BOOLEAN : sendRequest(w, u, f)
    \/ sendRequestBusy("a", FALSE)
    \/ \E w \in Workers : update(w)
    \/ \E w \in Workers : validate(w)
    \/ \E w \in Workers : validateEpisode(w)
    \/ \E w \in Workers : download(w)
    \/ \E w \in Workers : build(w)
    \/ \E w \in Workers : fail(w)
    \/ notificationsReceive

Next == Handle

Spec == Init /\ [][Next]_vars

\* ---- SpecRecovery: App.Start on the database a previous run left ----------
InitRecovery ==
    /\ InitCommon
    /\ notify = << >>
    /\ emitted = [r \in {0} \cup ReqIDs |-> << >>]
    /\ pc = [w \in Workers |-> "notStarted"]
    /\ \E done \in 0..1, stale \in 0..MaxStale :
         /\ processes = [i \in 1..(done + stale) |-> StaleRow(i, done)]
         /\ episodes = StaleEpisodes(done + stale, done)
    /\ consumer = "notStarted"
    /\ initPc = "init"
    /\ limit = [requests |-> 0, rejected |-> 0, faults |-> AppFaults]

NextRecovery ==
    \/ InitGetByStatus
    \/ InitFailProcess
    \/ appStart
    \/ cancel
    \/ \E w \in Workers : workerStop(w)
    \/ notificationsReceive
    \/ notificationsStop

SpecRecovery == InitRecovery /\ [][NextRecovery]_vars

\* ---- SpecShutdown: the running service with the shutdown signal -----------
\* the service right after App.Start: on a fresh database, or with the buffer
\* one short of full after Init() failed the processes of the previous run
Recovered(i, done) ==
    [StaleRow(i, done) EXCEPT !.Status = StatusFailed, !.Error = ErrProcessInterrupted]

InitShutdown ==
    /\ InitCommon
    /\ pc = [w \in Workers |-> "idle"]
    /\ \E k \in {0, notifyBuffer - 1} :
         /\ processes = [i \in 1..k |-> Recovered(i, 0)]
         /\ notify = [i \in 1..k |-> Notification(Recovered(k + 1 - i, 0))]
         /\ episodes = StaleEpisodes(k, 0)
         /\ emitted = [r \in {0} \cup ReqIDs |->
                         IF r = 0 THEN [i \in 1..k |-> Snapshot(Recovered(k + 1 - i, 0))]
                         ELSE << >>]
    /\ consumer = "running"
    /\ initPc = "started"
    /\ limit = [requests |-> AppRequests, rejected |-> MaxRejected, faults |-> AppFaults]

NextShutdown ==
    \/ Handle
    \/ cancel
    \/ \E w \in Workers : workerStop(w)
    \/ notificationsStop
    \/ sendRequestCanceled("a", FALSE)

SpecShutdown == InitShutdown /\ [][NextShutdown]_vars

\* ---- SpecShutdownFair: SpecShutdown with the goroutines scheduled ---------
\* a worker inside handle() takes its next step once the Store, Downloader or
\* Builder call it waits for returns, and a worker at the select with
\* ctx.Done() ready takes that case unless it receives a Request
WorkerFairness ==
    \A w \in Workers :
        /\ WF_vars(update(w)) /\ WF_vars(validate(w)) /\ WF_vars(validateEpisode(w))
        /\ WF_vars(download(w)) /\ WF_vars(build(w)) /\ WF_vars(fail(w))
        /\ WF_vars(workerStop(w))

SpecShutdownFair == InitShutdown /\ [][NextShutdown]_vars /\ WorkerFairness

\* ======================= the claims ========================================
\* handle() has returned for the Request of the r-th sendRequest call
Done(r) == r \in Admitted /\ \A w \in Workers : cur[w] # r

\* C1: when handle() has returned for a Request a worker received, the Process
\* is in exactly one terminal Status, Success or Failed, never still InProgress,
\* whichever Store, Downloader and Builder calls failed; a Success carries no
\* Error and a Failed carries one.
HandleEndsTerminal ==
    \A r \in Admitted :
        /\ Done(r) => Terminal(mem[r].Status)
        /\ Done(r) /\ mem[r].Status = StatusSuccess => mem[r].Error = NoError
        /\ Done(r) /\ mem[r].Status = StatusFailed => mem[r].Error # NoError
HandleEndsTerminalWitness ==
    \E r, q \in Admitted :
        /\ Done(r) /\ mem[r].Status = StatusSuccess
        /\ Done(q) /\ mem[q].Status = StatusFailed /\ calls[q].Upsert = 2
        /\ ErrorsIs(mem[q].Error, ErrProcessUpsert) /\ mem[q].ID = 0

\* C2 as stated: no Process whose Status is Success or Failed is assigned a
\* different Status.
StatusNeverReassigned ==
    [][\A r \in ReqIDs :
         (mem[r] # NoProcess /\ Terminal(mem[r].Status)) => mem'[r].Status = mem[r].Status]_vars
\* C2 amended: a persisted Status that is Success or Failed never changes, and
\* the Status in memory is reassigned only from Success to Failed, by fail()
\* after the final update() returned ErrProcessUpsert, so that the Success was
\* never persisted.
PersistedStatusFrozen ==
    [][/\ \A i \in 1..Len(processes) :
            Terminal(processes[i].Status) => processes'[i].Status = processes[i].Status
       /\ \A r \in ReqIDs :
            (mem[r] # NoProcess /\ Terminal(mem[r].Status) /\ mem'[r].Status # mem[r].Status)
              => /\ mem[r].Status = StatusSuccess
                 /\ mem'[r].Status = StatusFailed
                 /\ ErrorsIs(mem'[r].Error, ErrProcessUpsert)
                 /\ \A i \in 1..Len(processes) :
                      processes[i].ReqID = r => processes[i].Status = StatusInProgress]_vars
PersistedStatusFrozenWitness ==
    \E r \in Admitted :
        /\ Done(r) /\ mem[r].Status = StatusFailed /\ calls[r].Build = 1
        /\ ErrorsIs(mem[r].Error, ErrProcessUpsert)
        /\ processes[mem[r].ID].Status = StatusFailed

\* C3: in the successive persisted snapshots of a Process the Step never goes
\* back and never skips: a Process is first persisted at Creating, and each
\* ProcessUpsert leaves the Step or moves it to the next one.
PersistedStepsAdvance ==
    [][\A i \in 1..Len(processes') :
         IF i <= Len(processes)
         THEN /\ StepRank(processes'[i].Step) >= StepRank(processes[i].Step)
              /\ StepRank(processes'[i].Step) <= StepRank(processes[i].Step) + 1
         ELSE processes'[i].Step = StepCreating]_vars
PersistedStepsAdvanceWitness ==
    \E r \in Admitted :
        /\ Done(r) /\ mem[r].Status = StatusSuccess
        /\ processes[mem[r].ID].Step = StepPublishing
        /\ processes[mem[r].ID].ReqID = r

\* two Requests for the same URL with Force=false, both handled to the end
SameUrlPair(r, q) ==
    /\ r # q /\ Done(r) /\ Done(q)
    /\ mem[r].Url = mem[q].Url /\ ~mem[r].Force /\ ~mem[q].Force
RejectedInProgress(r) ==
    /\ mem[r].Status = StatusFailed /\ mem[r].Error = ErrEpisodeInProgress
    /\ calls[r].Download = 0

\* C4 as stated (and only for runs in which no Store, Downloader or Builder
\* call fails): of two Requests for the same URL with Force=false at most one
\* reaches Success and the other ends Failed with ErrEpisodeInProgress without a
\* Download call.
OtherFailsInProgress ==
    \A r, q \in Admitted :
        (SameUrlPair(r, q) /\ faults = 0)
          => /\ ~(mem[r].Status = StatusSuccess /\ mem[q].Status = StatusSuccess)
             /\ (RejectedInProgress(r) \/ RejectedInProgress(q))
\* C4 amended: at most one of the two reaches Success and then the other ends
\* Failed; a Process that ends with ErrEpisodeInProgress or ErrEpisodeExists had
\* no Download call. The other's error is ErrEpisodeInProgress only if its count
\* query returned more than 1.
AtMostOneSuccess ==
    \A r, q \in Admitted :
        SameUrlPair(r, q)
          => /\ ~(mem[r].Status = StatusSuccess /\ mem[q].Status = StatusSuccess)
             /\ mem[r].Status = StatusSuccess => mem[q].Status = StatusFailed
             /\ mem[q].Error \in {ErrEpisodeInProgress, ErrEpisodeExists}
                  => calls[q].Download = 0 /\ mem[q].Status = StatusFailed
             /\ mem[q].Error = ErrEpisodeInProgress <=> calls[q].Count > 1
AtMostOneSuccessWitness ==
    \E r, q \in Admitted :
        /\ SameUrlPair(r, q) /\ faults = 0
        /\ mem[r].Status = StatusSuccess
        /\ RejectedInProgress(q)

\* the processes Init() failed, and how often one is on the notify channel or
\* was handed to sendNotify
InterruptedRows ==
    {i \in 1..Len(processes) :
        processes[i].Status = StatusFailed /\ processes[i].Error = ErrProcessInterrupted}
OnBus(i) == Cardinality({k \in 1..Len(notify) : notify[k].snap.ID = i})
Notified(i) == Cardinality({k \in 1..Len(emitted[0]) : emitted[0][k].ID = i})
\* the processes the previous run finished
FinishedRows == Cardinality({i \in 1..Len(processes) : processes[i].Status = StatusSuccess})
\* Init() returned nil and nothing ran since
InitSucceeded == initPc = "ok"

\* C5 as stated (for runs without the shutdown signal): after a successful
\* Init() no process is left InProgress, each process that was is persisted
\* Failed with ErrProcessInterrupted, and exactly one notification for each of
\* them is on the notify channel, for any number of them.
InitNotifiesEach ==
    (InitSucceeded /\ ~ctxDone)
      => /\ \A i \in 1..Len(processes) : processes[i].Status # StatusInProgress
         /\ \A i \in InterruptedRows : OnBus(i) = 1
\* C5 amended: after a successful Init() no process is left InProgress, each
\* process that was is persisted Failed with ErrProcessInterrupted at the Step
\* it had, and sendNotify was called exactly once for each; at most one
\* notification per process is on the channel, exactly one when there are at
\* most notifyBuffer of them and the shutdown signal has not fired, and without
\* the signal the channel holds the first notifyBuffer of them.
InitFailsEach ==
    InitSucceeded
      => /\ \A i \in 1..Len(processes) :
              \/ processes[i] = StaleRow(i, FinishedRows) /\ i <= FinishedRows
              \/ processes[i] = Recovered(i, FinishedRows) /\ i > FinishedRows
         /\ \A i \in 1..Len(processes) : processes[i].Status # StatusInProgress
         /\ \A i \in InterruptedRows : Notified(i) = 1 /\ OnBus(i) <= 1
         /\ Len(emitted[0]) = Cardinality(InterruptedRows)
         /\ ~ctxDone =>
              /\ Len(notify) = IF Cardinality(InterruptedRows) <= notifyBuffer
                               THEN Cardinality(InterruptedRows) ELSE notifyBuffer
              /\ \A k \in 1..Len(notify) : notify[k].snap.ID = emitted[0][k].ID
InitFailsEachWitness ==
    /\ InitSucceeded /\ ~ctxDone
    /\ Cardinality(InterruptedRows) = notifyBuffer + 1
    /\ Len(notify) = notifyBuffer
    /\ OnBus(Len(processes)) = 1

\* C6: when every worker is handling a Request for the whole timeout,
\* sendRequest returns errProcessorBusy and changes nothing else; no worker
\* ever receives the rejected Request and no Process is built or persisted for
\* it.
BusyNeverAdmitted ==
    /\ [](\A c \in Rejected :
            /\ mem[c] = NoProcess
            /\ emitted[c] = << >>
            /\ calls[c].Upsert = 0
            /\ \A w \in Workers : cur[w] # c
            /\ \A i \in 1..Len(processes) : processes[i].ReqID # c)
    /\ [][(Len(requests') > Len(requests) /\ \A w \in Workers : pc[w] # "idle")
            => /\ requests'[Len(requests')].result = "errProcessorBusy"
               /\ UNCHANGED <<workerVars, storeVars, notify, histVars>>]_vars
BusyNeverAdmittedWitness ==
    \E c \in Rejected :
        /\ requests[c].result = "errProcessorBusy"
        /\ \A w \in Workers : cur[w] # 0 /\ cur[w] # c
        /\ Len(processes) >= workerPoolSize

\* update() returned ErrProcessUpsert for the Process of Request r
UpdateFailed(r) ==
    \/ \E w \in Workers : cur[w] = r /\ pc[w] = "fail" /\ ErrorsIs(err[w], ErrProcessUpsert)
    \/ Done(r) /\ ErrorsIs(mem[r].Error, ErrProcessUpsert)

\* C7 as stated: every ProcessUpsert call made while handling a Request is
\* followed by a call of sendNotify with the Process, also when the
\* ProcessUpsert failed.
EveryPersistNotifies ==
    \A r \in Admitted : Len(emitted[r]) = calls[r].Upsert
\* C7 amended: every ProcessUpsert call of update() that succeeds, and every
\* ProcessUpsert call of fail() whether it succeeds or not, is followed by a
\* call of sendNotify with the current Process; a ProcessUpsert call of
\* update() that fails is followed by none (the Failed Process is notified by
\* fail() after its own ProcessUpsert).
SuccessfulPersistNotifies ==
    /\ [](\A r \in Admitted :
            Len(emitted[r]) = calls[r].Upsert - (IF UpdateFailed(r) THEN 1 ELSE 0))
    /\ [][\A w \in Workers : \A r \in Admitted :
            (cur[w] = r /\ calls'[r].Upsert # calls[r].Upsert)
              => IF pc[w] = "update" /\ faults' # faults
                 THEN emitted'[r] = emitted[r] /\ notify' = notify
                 ELSE /\ Len(emitted'[r]) = Len(emitted[r]) + 1
                      /\ emitted'[r][Len(emitted'[r])] = Snapshot(mem'[r])]_vars
SuccessfulPersistNotifiesWitness ==
    \E r \in Admitted :
        /\ Done(r) /\ ErrorsIs(mem[r].Error, ErrProcessUpsert)
        /\ calls[r].Upsert = 3 /\ Len(emitted[r]) = 2
        /\ processes[mem[r].ID].Status = StatusInProgress

\* a step in which sendNotify is called
Emits(r) == Len(emitted'[r]) > Len(emitted[r])

\* C8: sendNotify never blocks, and when the notify buffer is full or the
\* shutdown signal has fired the notification is dropped: the channel is left
\* as it was.
DroppedWhenFullOrShutdown ==
    [][\A r \in {0} \cup ReqIDs :
         (Emits(r) /\ (Len(notify) >= notifyBuffer \/ ctxDone)) => notify' = notify]_vars

\* the emissions of a terminal snapshot for Request r
TerminalEmissions(r) == {k \in 1..Len(emitted[r]) : Terminal(emitted[r][k].Status)}

\* C9: for every Request a worker received sendNotify is called exactly once
\* with a terminal snapshot, as the last call for that Process and not before
\* handle() ends; when the buffer is not full and the shutdown signal has not
\* fired that notification is put on the channel the consumer reads, and the
\* consumer takes the notifications in the order they were put.
OneTerminalEmission ==
    /\ [](\A r \in Admitted :
            /\ Done(r) => TerminalEmissions(r) = {Len(emitted[r])}
            /\ ~Done(r) => TerminalEmissions(r) = {})
    /\ [][\A r \in ReqIDs :
            (Emits(r) /\ Terminal(mem'[r].Status) /\ Len(notify) < notifyBuffer /\ ~ctxDone)
              => notify' = Append(notify, Notification(mem'[r]))]_vars
    /\ [][(notify' # notify /\ \A r \in {0} \cup ReqIDs : ~Emits(r))
            => consumer = "running" /\ notify' = Tail(notify)]_vars
OneTerminalEmissionWitness ==
    \E r \in Admitted :
        /\ Done(r) /\ ~ctxDone
        /\ Len(notify) = notifyBuffer
        /\ notify[notifyBuffer].ref = r
        /\ notify[notifyBuffer].snap.Status = StatusFailed
        /\ mem[r].ID # 0
        /\ processes[mem[r].ID].Status # StatusFailed

\* a Request for a URL that had an Episode when the Request was admitted
ForExisting(r) == r \in Admitted /\ requests[r].existed

\* C10 as stated (for runs in which no Store call fails): a Force=false Request
\* for a URL that already has an Episode ends Failed with ErrEpisodeExists,
\* without a Download or Build call.
ExistingAlwaysExists ==
    \A r \in Admitted :
        (ForExisting(r) /\ Done(r) /\ ~mem[r].Force /\ faults = 0)
          => /\ mem[r].Status = StatusFailed
             /\ mem[r].Error = ErrEpisodeExists
             /\ calls[r].Download = 0 /\ calls[r].Build = 0
\* C10 amended: a Force=false Request for a URL that already has an Episode
\* ends Failed without a Download or Build call; its error is ErrEpisodeExists
\* when no other process is in progress for the URL (the count is 1) and the
\* Store calls succeed, ErrEpisodeInProgress when the count is above 1. The
\* same Request with Force=true and count 1 passes validation and goes on to
\* Downloading.
ExistingRejected ==
    \A r \in Admitted :
        ForExisting(r)
          => /\ (Done(r) /\ ~mem[r].Force)
                  => /\ mem[r].Status = StatusFailed
                     /\ calls[r].Download = 0 /\ calls[r].Build = 0
                     /\ calls[r].Count = 1 =>
                          \/ mem[r].Error = ErrEpisodeExists
                          \/ ErrorsIs(mem[r].Error, StoreErr)
                     /\ calls[r].Count > 1 => mem[r].Error = ErrEpisodeInProgress
                     /\ faults = 0 => mem[r].Error \in {ErrEpisodeExists, ErrEpisodeInProgress}
             /\ (mem[r].Force /\ calls[r].Count = 1)
                  => /\ StepRank(mem[r].Step) >= StepRank(StepDownloading)
                     /\ Done(r) => calls[r].Upsert >= 2
                     /\ (Done(r) /\ faults = 0) => mem[r].Status = StatusSuccess
ExistingRejectedWitness ==
    \E r, q \in Admitted :
        /\ ForExisting(r) /\ Done(r) /\ ~mem[r].Force
        /\ mem[r].Error = ErrEpisodeExists /\ calls[r].Count = 1
        /\ ForExisting(q) /\ Done(q) /\ mem[q].Force /\ mem[q].Status = StatusSuccess

\* Downloader.Download was called for Request r and returned an error
DownloadFailed(r) == calls[r].Download > 0 /\ mem[r].Episode = 0
\* the last snapshot sendNotify was called with for Request r
LastEmitted(r) == emitted[r][Len(emitted[r])]

\* C11: when Downloader.Download returns an error for a Process, handle() goes
\* to fail() with the Step still Downloading, the Process ends Failed at
\* Step Downloading, in memory, in the last notification and in the store if
\* the last persist succeeded, and Builder.Build is never called for it.
DownloadErrorEndsAtDownloading ==
    /\ [](\A r \in Admitted :
            DownloadFailed(r)
              => /\ calls[r].Build = 0
                 /\ mem[r].Step = StepDownloading
                 /\ processes[mem[r].ID].Step = StepDownloading
                 /\ Done(r) => /\ mem[r].Status = StatusFailed
                               /\ LastEmitted(r).Step = StepDownloading
                               /\ LastEmitted(r).Status = StatusFailed)
    /\ [][\A w \in Workers :
            (pc[w] = "download" /\ faults' # faults
               /\ calls'[cur[w]].Download # calls[cur[w]].Download)
              => pc'[w] = "fail" /\ DownloadFailed(cur[w])']_vars
DownloadErrorEndsAtDownloadingWitness ==
    \E r \in Admitted :
        /\ Done(r) /\ DownloadFailed(r)
        /\ processes[mem[r].ID].Status = StatusFailed
        /\ processes[mem[r].ID].Step = StepDownloading

\* C12 as stated: whenever Downloader.Download returned an error, the Error of
\* the Failed Process satisfies errors.Is(Error, ErrDownloadFailed).
DownloadErrorIsDownloadFailed ==
    \A r \in Admitted :
        (Done(r) /\ DownloadFailed(r)) => ErrorsIs(mem[r].Error, ErrDownloadFailed)
\* C12 amended: the Error of the Failed Process is the error Download returned,
\* as it is; it satisfies errors.Is(Error, ErrDownloadFailed) exactly when the
\* platform's download failed, and is ErrNoMatchingPlatform or wraps
\* ErrEpisodeCreate otherwise.
DownloadErrorRecordedAsIs ==
    /\ [](\A r \in Admitted :
            (Done(r) /\ DownloadFailed(r))
              => /\ mem[r].Error \in DownloadErrors
                 /\ ErrorsIs(mem[r].Error, ErrDownloadFailed) <=> ErrorsIs(mem[r].Error, PlatformErr))
    /\ [][\A w \in Workers :
            (pc[w] = "fail" /\ pc'[w] = "idle") => mem'[cur[w]].Error = err[w]]_vars
DownloadErrorRecordedAsIsWitness ==
    \E r, q \in Admitted :
        /\ Done(r) /\ DownloadFailed(r) /\ mem[r].Error = ErrNoMatchingPlatform
        /\ Done(q) /\ DownloadFailed(q) /\ ErrorsIs(mem[q].Error, ErrDownloadFailed)

\* Builder.Build returned an error for the Process of Request r
BuildFailed(r) ==
    \/ \E w \in Workers : cur[w] = r /\ pc[w] = "fail" /\ err[w] = BuildErr
    \/ Done(r) /\ mem[r].Error = BuildErr

\* C13: when Download succeeded and Build then fails, the Process ends Failed
\* with the Episode the Downloader returned still attached: in memory, in the
\* row of the store, and in the snapshot of the terminal notification.
BuildFailureKeepsEpisode ==
    /\ [](\A r \in Admitted :
            BuildFailed(r)
              => /\ calls[r].Download = 1 /\ calls[r].Build = 1
                 /\ mem[r].Episode # 0
                 /\ episodes[mem[r].Episode] = mem[r].Url
                 /\ processes[mem[r].ID].Episode = mem[r].Episode
                 /\ Done(r) => /\ mem[r].Status = StatusFailed
                               /\ LastEmitted(r).Status = StatusFailed
                               /\ LastEmitted(r).Episode = mem[r].Episode)
    /\ [][\A w \in Workers :
            (pc[w] = "build" /\ faults' # faults
               /\ calls'[cur[w]].Build # calls[cur[w]].Build)
              => pc'[w] = "fail" /\ err'[w] = BuildErr /\ mem' = mem]_vars
BuildFailureKeepsEpisodeWitness ==
    \E r \in Admitted :
        /\ Done(r) /\ BuildFailed(r)
        /\ processes[mem[r].ID].Status = StatusFailed
        /\ processes[mem[r].ID].Episode # 0

\* C14: with no failing Store, Downloader or Builder call a Process that passes
\* validation ends Success; a Process that ends Success has an Episode, one
\* Download and one Build call and four persists; Build is called only after
\* Download returned an Episode and the Publishing step was persisted with it.
SuccessPath ==
    /\ [](\A r \in Admitted :
            /\ calls[r].Download <= 1 /\ calls[r].Build <= calls[r].Download
            /\ (Done(r) /\ mem[r].Status = StatusSuccess)
                 => /\ mem[r].Episode # 0 /\ episodes[mem[r].Episode] = mem[r].Url
                    /\ calls[r].Download = 1 /\ calls[r].Build = 1 /\ calls[r].Upsert = 4
                    /\ processes[mem[r].ID] = mem[r]
            /\ (Done(r) /\ faults = 0)
                 => \/ mem[r].Status = StatusSuccess
                    \/ mem[r].Error \in {ErrEpisodeInProgress, ErrEpisodeExists})
    /\ [][\A r \in Admitted :
            calls'[r].Build # calls[r].Build
              => /\ calls[r].Download = 1 /\ mem[r].Episode # 0
                 /\ processes[mem[r].ID].Step = StepPublishing
                 /\ processes[mem[r].ID].Episode = mem[r].Episode]_vars
SuccessPathWitness ==
    \E r \in Admitted :
        /\ Done(r) /\ faults = 0 /\ ~mem[r].Force
        /\ mem[r].Status = StatusSuccess
        /\ LastEmitted(r) = Snapshot(mem[r])

\* the processes Init() had not reached when it returned
InitPending == {initList[k] : k \in 1..Len(initList)}

\* C15: when ProcessGetByStatus fails Init() returns an error wrapping
\* ErrProcessGetByStatus and no Process is modified or notified; when
\* ProcessUpsert fails for a Process Init() returns at once an error wrapping
\* ErrProcessUpsert, that Process is not notified and it and the Processes after
\* it stay as they were, while those before it are Failed and notified; after
\* either the workers and the consumer are not started.
InitFailsOutright ==
    /\ [][(initPc = "init" /\ faults' # faults)
            => /\ initPc' = "failed" /\ ErrorsIs(initErr', ErrProcessGetByStatus)
               /\ UNCHANGED <<processes, notify, emitted>>]_vars
    /\ [][(initPc = "loop" /\ faults' # faults)
            => /\ initPc' = "failed" /\ ErrorsIs(initErr', ErrProcessUpsert)
               /\ UNCHANGED <<processes, notify, emitted, initList>>]_vars
    /\ [](initPc = "failed"
            => /\ initErr # NoError
               /\ consumer = "notStarted" /\ \A w \in Workers : pc[w] = "notStarted"
               /\ ErrorsIs(initErr, ErrProcessGetByStatus)
                    => /\ emitted[0] = << >> /\ notify = << >>
                       /\ \A i \in 1..Len(processes) : processes[i] = StaleRow(i, FinishedRows)
               /\ ErrorsIs(initErr, ErrProcessUpsert)
                    => /\ initList # << >>
                       /\ \A i \in 1..Len(processes) :
                            IF i <= FinishedRows \/ i \in InitPending
                            THEN processes[i] = StaleRow(i, FinishedRows) /\ Notified(i) = 0
                            ELSE processes[i] = Recovered(i, FinishedRows) /\ Notified(i) = 1)
InitFailsOutrightWitness ==
    /\ initPc = "failed"
    /\ ErrorsIs(initErr, ErrProcessUpsert)
    /\ Cardinality(InterruptedRows) >= 1
    /\ Len(initList) >= 2

\* C16: a ProcessUpsert failure in update(), at whichever of the four persist
\* points, sends handle() to fail() with an error wrapping ErrProcessUpsert;
\* after it no count query, Download or Build call is made for the Process,
\* exactly one more ProcessUpsert is attempted (by fail()), and whether that one
\* fails or not handle() returns with the Process Failed and the worker idle.
UpsertFailureIsTerminal ==
    /\ [][\A w \in Workers :
            (pc[w] = "update" /\ faults' # faults
             /\ calls'[cur[w]].Upsert # calls[cur[w]].Upsert)
              => /\ pc'[w] = "fail" /\ cur'[w] = cur[w] /\ mem' = mem
                 /\ ErrorsIs(err'[w], ErrProcessUpsert)]_vars
    /\ [][\A r \in Admitted :
            UpdateFailed(r)
              => /\ calls'[r].Download = calls[r].Download
                 /\ calls'[r].Build = calls[r].Build
                 /\ calls'[r].Count = calls[r].Count
                 /\ IF Done(r) THEN calls'[r] = calls[r] /\ mem'[r] = mem[r]
                    ELSE calls'[r].Upsert # calls[r].Upsert
                           => /\ calls'[r].Upsert = calls[r].Upsert + 1
                              /\ \A w \in Workers : cur[w] = r => pc'[w] = "idle" /\ cur'[w] = 0]_vars
    /\ [](\A r \in Admitted :
            (Done(r) /\ UpdateFailed(r))
              => /\ mem[r].Status = StatusFailed
                 /\ mem[r].Error = Wrap(ErrProcessUpsert, StoreErr)
                 /\ calls[r].Upsert = Len(emitted[r]) + 1
                 /\ LastEmitted(r).Status = StatusFailed)
UpsertFailureIsTerminalWitness ==
    \E r, q \in Admitted :
        /\ Done(r) /\ UpdateFailed(r) /\ calls[r].Build = 1
        /\ processes[mem[r].ID].Status = StatusInProgress
        /\ Done(q) /\ mem[q].Status = StatusSuccess

\* C17: once the shutdown signal has fired no Request is admitted: a
\* sendRequest call that returns after it returns an error, and no worker
\* receives a Request and starts handle().
NoAdmissionAfterShutdown ==
    [][(ctxDone /\ Len(requests') > Len(requests))
         => /\ requests'[Len(requests')].result # "nil"
            /\ UNCHANGED workerVars]_vars

\* the Requests being handled
InHandle == {r \in Admitted : ~Done(r)}

ConsumerReadsSnapshot ==
    (consumer = "running" /\ notify # << >>)
      => LET n == Head(notify)
             p == getMessageReads(n)
         IN /\ p.Step = n.snap.Step
            /\ p.Status = n.snap.Status
            /\ p.Error = n.snap.Error
            /\ p.Episode = n.snap.Episode

\* the Episode of a snapshot agrees with its Step
EpisodeMatchesStep(p) ==
    IF p.Step = StepPublishing THEN p.Episode \in 1..Len(episodes) ELSE p.Episode = 0

\* C20: every persisted and every notified snapshot of a Process at Step
\* Creating or Downloading carries no Episode and every one at Step Publishing
\* carries the stored Episode of its URL; a Process has an Episode only if
\* Download was called for it and returned one.
EpisodeOnlyAfterDownload ==
    /\ \A i \in 1..Len(processes) :
         /\ EpisodeMatchesStep(processes[i])
         /\ processes[i].Episode # 0 => episodes[processes[i].Episode] = processes[i].Url
    /\ \A k \in 1..Len(notify) : EpisodeMatchesStep(notify[k].snap)
    /\ \A r \in ReqIDs : \A k \in 1..Len(emitted[r]) :
         /\ EpisodeMatchesStep(emitted[r][k])
         /\ emitted[r][k].Episode # 0 => emitted[r][k].Episode = mem[r].Episode
    /\ \A r \in Admitted :
         /\ mem[r].Episode # 0 <=> (calls[r].Download = 1 /\ ~DownloadFailed(r))
         /\ mem[r].Episode # 0 => episodes[mem[r].Episode] = mem[r].Url
EpisodeOnlyAfterDownloadWitness ==
    \E r, q \in Admitted :
        /\ Done(r) /\ mem[r].ID # 0
        /\ processes[mem[r].ID].Step = StepPublishing
        /\ processes[mem[r].ID].Episode = Len(episodes)
        /\ LastEmitted(r).Episode = Len(episodes)
        /\ Done(q) /\ DownloadFailed(q) /\ mem[q].ID # 0
        /\ processes[mem[q].ID].Status = StatusFailed

\* C21: recovery runs to completion before any worker can receive a Request:
\* the Worker Pool (and the consumer) start only from a nil return of Init(),
\* at that moment the Store holds no Process with Status=InProgress and Init()
\* had left none unvisited; a worker waits on the intake channel only after
\* that start; and once Init() failed the Worker Pool is never started.
RecoveryBeforeWorkers ==
    /\ [][(initPc # "started" /\ initPc' = "started")
            => /\ initPc = "ok" /\ initList = << >>
               /\ \A w \in Workers : pc[w] = "notStarted" /\ pc'[w] = "idle"
               /\ \A i \in 1..Len(processes') :
                    processes'[i].Status # StatusInProgress]_vars
    /\ [](\A w \in Workers : pc[w] # "notStarted" => initPc = "started")
    /\ [](initPc # "started" => Admitted = {} /\ \A w \in Workers : cur[w] = 0)
    /\ [][initPc = "failed"
            => initPc' = "failed" /\ \A w \in Workers : pc'[w] = "notStarted"]_vars
RecoveryBeforeWorkersWitness ==
    /\ initPc = "started"
    /\ Cardinality(InterruptedRows) >= 2
    /\ \A w \in Workers : pc[w] = "idle"

\* two Processes for the same URL whose handle() runs overlap: r was received
\* and is still InProgress, q is another received Process for the same URL
Concurrent(r, q) ==
    /\ r \in Admitted /\ q \in Admitted /\ r # q
    /\ mem[r].Url = mem[q].Url
    /\ mem[r].Status = StatusInProgress /\ mem[q].Status = StatusInProgress

LiveWorkers == {w \in Workers : pc[w] \notin {"notStarted", "stopped"}}

\* C23: no error leaves a worker's loop: when handle() returns, with Success or
\* through fail() after any failure, the worker is back at the receive on the
\* intake channel; until the shutdown signal all workerPoolSize workers are
\* live, and a worker only leaves on that signal, from the receive; while a
\* worker waits there a further Request can be handed over.
WorkersStayLive ==
    /\ [](~ctxDone => Cardinality(LiveWorkers) = workerPoolSize)
    /\ [](\A w \in Workers : (pc[w] = "idle") <=> (cur[w] = 0 /\ w \in LiveWorkers))
    /\ [][\A w \in Workers :
            /\ (cur[w] # 0 /\ cur'[w] = 0)
                 => pc'[w] = "idle" /\ Terminal(mem'[cur[w]].Status)
            /\ (pc[w] # "stopped" /\ pc'[w] = "stopped")
                 => pc[w] = "idle" /\ ctxDone]_vars
    /\ [](\A w \in Workers :
            (pc[w] = "idle" /\ Cardinality(Admitted) < limit.requests)
              => ENABLED (\E v \in Workers, u \in Urls, f \in BOOLEAN :
                            sendRequest(v, u, f)))
WorkersStayLiveWitness ==
    /\ Done(1) /\ mem[1].Status = StatusFailed /\ UpdateFailed(1)
    /\ cur[1] = 2
    /\ pc[1] = "validate"

\* C24: validate() returns ErrEpisodeInProgress whenever the count query gives
\* more than 1, with Force set or not and with an Episode for the URL or not;
\* a count of exactly 1 never gives that error; Force=true skips only the
\* episode lookup: with a count of 1 it goes straight on to Step Downloading,
\* and a Process with Force never ends with ErrEpisodeExists or a lookup error.
CountDecides ==
    /\ [][\A w \in Workers :
            (pc[w] = "validate" /\ calls'[cur[w]].Count # calls[cur[w]].Count)
              => LET r == cur[w]
                 IN IF calls'[r].Count > 1
                    THEN pc'[w] = "fail" /\ err'[w] = ErrEpisodeInProgress
                    ELSE /\ calls'[r].Count = 1
                         /\ err'[w] = NoError
                         /\ IF mem[r].Force
                            THEN pc'[w] = "update" /\ mem'[r].Step = StepDownloading
                            ELSE pc'[w] = "validateEpisode" /\ mem'[r] = mem[r]]_vars
    /\ [](\A r \in Admitted :
            /\ Done(r) => (mem[r].Error = ErrEpisodeInProgress <=> calls[r].Count > 1)
            /\ calls[r].Count > 1 => calls[r].Download = 0
            /\ mem[r].Force
                 => /\ mem[r].Error # ErrEpisodeExists
                    /\ ~ErrorsIs(mem[r].Error, EpisodeGetByOriginalURL)
                    /\ \A w \in Workers : cur[w] = r => pc[w] # "validateEpisode")
CountDecidesWitness ==
    \E r, q \in Admitted :
        /\ mem[r].Force /\ requests[r].existed /\ calls[r].Count = 1
        /\ calls[r].Download = 1
        /\ mem[q].Force /\ requests[q].existed /\ calls[q].Count = 2
        /\ Done(q) /\ mem[q].Error = ErrEpisodeInProgress

\* C25: a Store error inside validate() fails the Process with no Downloader
\* call: when ProcessCountByUrlAndStatus fails the error wraps ErrProcessGetByURL
\* and the episode lookup is not made; when EpisodeGetByOriginalUrl fails (only
\* reached with Force=false after a count of 1) the error wraps
\* EpisodeGetByOriginalURL; either way the Process ends Failed at Step Creating.
ValidateStoreErrorFails ==
    /\ [][\A w \in Workers :
            (pc[w] = "validate" /\ pc'[w] # pc[w] /\ faults' # faults)
              => /\ pc'[w] = "fail"
                 /\ err'[w] = Wrap(ErrProcessGetByURL, StoreErr)
                 /\ ErrorsIs(err'[w], ErrProcessGetByURL)
                 /\ UNCHANGED <<calls, mem>>]_vars
    /\ [][\A w \in Workers :
            (pc[w] = "validateEpisode" /\ pc'[w] # pc[w] /\ faults' # faults)
              => /\ pc'[w] = "fail"
                 /\ err'[w] = Wrap(EpisodeGetByOriginalURL, StoreErr)
                 /\ ErrorsIs(err'[w], EpisodeGetByOriginalURL)
                 /\ ~mem[cur[w]].Force /\ calls[cur[w]].Count = 1
                 /\ UNCHANGED <<calls, mem>>]_vars
    /\ [](\A r \in Admitted :
            (\/ ErrorsIs(mem[r].Error, ErrProcessGetByURL)
             \/ ErrorsIs(mem[r].Error, EpisodeGetByOriginalURL))
              => /\ Done(r) /\ mem[r].Status = StatusFailed
                 /\ mem[r].Step = StepCreating /\ mem[r].Episode = 0
                 /\ calls[r].Download = 0 /\ calls[r].Build = 0
                 /\ ErrorsIs(mem[r].Error, ErrProcessGetByURL) => calls[r].Count = 0
                 /\ ErrorsIs(mem[r].Error, EpisodeGetByOriginalURL)
                      => calls[r].Count = 1 /\ ~mem[r].Force)
ValidateStoreErrorFailsWitness ==
    \E r, q \in Admitted :
        /\ Done(r) /\ ErrorsIs(mem[r].Error, ErrProcessGetByURL)
        /\ Done(q) /\ ErrorsIs(mem[q].Error, EpisodeGetByOriginalURL)

\* C26: update() notifies only after a successful persist: when its
\* ProcessUpsert fails it returns an error wrapping ErrProcessUpsert, the Store
\* is unchanged and nothing is handed to sendNotify or enqueued; when it
\* succeeds the Process is in the Store and sendNotify is called exactly once
\* with it, which enqueues exactly one notification while the buffer has room
\* and the shutdown signal has not fired.
UpdateNotifiesAfterPersist ==
    [][\A w \in Workers :
         (pc[w] = "update" /\ calls'[cur[w]].Upsert # calls[cur[w]].Upsert)
           => LET r == cur[w]
              IN IF faults' # faults
                 THEN /\ pc'[w] = "fail"
                      /\ err'[w] = Wrap(ErrProcessUpsert, StoreErr)
                      /\ ErrorsIs(err'[w], ErrProcessUpsert)
                      /\ UNCHANGED <<processes, emitted, notify, mem>>
                 ELSE /\ err'[w] = NoError /\ pc'[w] # "fail"
                      /\ mem'[r].ID # 0 /\ processes'[mem'[r].ID] = mem'[r]
                      /\ emitted' = [emitted EXCEPT ![r] = Append(@, Snapshot(mem'[r]))]
                      /\ \/ notify' = Append(notify, Notification(mem'[r]))
                         \/ notify' = notify
                      /\ (Len(notify) < notifyBuffer /\ ~ctxDone)
                           => notify' = Append(notify, Notification(mem'[r]))]_vars
UpdateNotifiesAfterPersistWitness ==
    \E r \in Admitted :
        /\ Done(r) /\ ErrorsIs(mem[r].Error, ErrProcessUpsert)
        /\ mem[r].Step = StepPublishing /\ mem[r].Status = StatusFailed
        /\ calls[r].Upsert = 4
        /\ Len(emitted[r]) = 3

\* C27: fail() sets Status=Failed and Error to the error it was given, makes
\* one ProcessUpsert attempt and calls sendNotify exactly once with the Failed
\* Process whether that attempt succeeded or not; the error of the attempt is
\* not returned: handle() returns and the worker is back at the receive with no
\* pending error. Nothing else of the Process changes.
FailAlwaysNotifies ==
    [][\A w \in Workers :
         (pc[w] = "fail" /\ pc'[w] # pc[w])
           => LET r == cur[w]
              IN /\ mem'[r].Status = StatusFailed /\ mem'[r].Error = err[w]
                 /\ mem'[r] = [FailedProcess(mem[r], err[w]) EXCEPT !.ID = mem'[r].ID]
                 /\ calls'[r] = [calls[r] EXCEPT !.Upsert = @ + 1]
                 /\ IF faults' # faults
                    THEN processes' = processes /\ mem'[r].ID = mem[r].ID
                    ELSE mem'[r].ID # 0 /\ processes'[mem'[r].ID] = mem'[r]
                 /\ emitted' = [emitted EXCEPT ![r] = Append(@, Snapshot(mem'[r]))]
                 /\ \/ notify' = Append(notify, Notification(mem'[r]))
                    \/ notify' = notify
                 /\ (Len(notify) < notifyBuffer /\ ~ctxDone)
                      => notify' = Append(notify, Notification(mem'[r]))
                 /\ pc'[w] = "idle" /\ cur'[w] = 0 /\ err'[w] = NoError]_vars
FailAlwaysNotifiesWitness ==
    \E r \in Admitted :
        /\ Done(r) /\ mem[r].Status = StatusFailed
        /\ mem[r].ID # 0 /\ processes[mem[r].ID].Status = StatusInProgress
        /\ LastEmitted(r).Status = StatusFailed
        /\ calls[r].Upsert = Len(emitted[r]) + 1

\* the place of a waiting notification among the sendNotify calls of its Process
EmissionIndex(n) ==
    CHOOSE k \in 1..Len(emitted[n.ref]) : emitted[n.ref][k] = Snapshot(n.snap)

\* C28: within one Process the persist/notify pairs are sequential: sendNotify
\* is called for Creating, Downloading, Publishing and the terminal Status in
\* that order (a prefix of the InProgress ones, then one terminal call, which
\* is the last), so at least one and at most four calls per Process; the
\* notifications of a Process wait on the channel in the order of those calls,
\* a send only appends and the consumer only takes the head, so it never
\* receives two notifications of one Process out of emission order.
EmissionsInOrder ==
    /\ [](\A r \in Admitted :
            /\ Len(emitted[r]) <= 4
            /\ Done(r) => Len(emitted[r]) >= 1 /\ Terminal(LastEmitted(r).Status)
            /\ \A k \in 1..Len(emitted[r]) :
                 IF emitted[r][k].Status = StatusInProgress
                 THEN StepRank(emitted[r][k].Step) = k
                 ELSE k = Len(emitted[r]) /\ StepRank(emitted[r][k].Step) <= k)
    /\ [](\A i, j \in 1..Len(notify) :
            (i < j /\ notify[i].ref = notify[j].ref /\ notify[i].ref # 0)
              => /\ \E k \in 1..Len(emitted[notify[i].ref]) :
                      emitted[notify[i].ref][k] = Snapshot(notify[i].snap)
                 /\ \E k \in 1..Len(emitted[notify[j].ref]) :
                      emitted[notify[j].ref][k] = Snapshot(notify[j].snap)
                 /\ EmissionIndex(notify[i]) < EmissionIndex(notify[j]))
    /\ [][notify' # notify
            => IF Len(notify') < Len(notify)
               THEN notify' = Tail(notify)
               ELSE /\ Len(notify') = Len(notify) + 1
                    /\ SubSeq(notify', 1, Len(notify)) = notify
                    /\ LET n == notify'[Len(notify')]
                       IN /\ n.ref # 0
                          /\ emitted'[n.ref][Len(emitted'[n.ref])] = Snapshot(n.snap)]_vars
EmissionsInOrderWitness ==
    \E r \in Admitted :
        /\ Done(r) /\ Len(emitted[r]) = 4 /\ mem[r].Status = StatusSuccess
        /\ Len(notify) >= 4
        /\ \A k \in 1..4 : notify[Len(notify) - 4 + k].ref = r
        /\ \E q \in Admitted : Done(q) /\ Len(emitted[q]) = 1

\* C29: in the Url handler the reply is MsgDownloadBusy when sendRequest
\* returned the busy error, MsgSomethingWentWrong only for the other errors,
\* and MsgDownloadStarted only when sendRequest returned nil.
BusyReplyIsBusyMessage ==
    \A c \in 1..Len(requests) :
        /\ requests[c].result = "errProcessorBusy" => requests[c].reply = MsgDownloadBusy
        /\ requests[c].reply = MsgSomethingWentWrong
             => requests[c].result \notin {"nil", "errProcessorBusy"}
        /\ requests[c].reply = MsgDownloadStarted => requests[c].result = "nil"

\* a Process, in memory or as a Store row, that is InProgress and past validation
PastValidation(p) ==
    p.Status = StatusInProgress /\ p.Step \in {StepDownloading, StepPublishing}

\* C30: mutual exclusion per URL: at no moment are two Processes for the same
\* URL both InProgress and both past validation (Step Downloading or
\* Publishing), neither as the workers hold them nor as rows of the Store, with
\* Force=true as well; a Process passes validation only when it is persisted
\* InProgress and its count query returned 1.
MutualExclusionPerUrl ==
    /\ [](\A r, q \in Admitted :
            (r # q /\ mem[r].Url = mem[q].Url)
              => ~(PastValidation(mem[r]) /\ PastValidation(mem[q])))
    /\ [](\A i, j \in 1..Len(processes) :
            (i # j /\ processes[i].Url = processes[j].Url)
              => ~(PastValidation(processes[i]) /\ PastValidation(processes[j])))
    /\ [][\A r \in Admitted :
            (~PastValidation(mem[r]) /\ PastValidation(mem'[r]))
              => /\ mem[r].ID # 0 /\ processes[mem[r].ID].Status = StatusInProgress
                 /\ calls'[r].Count = 1]_vars
MutualExclusionPerUrlWitness ==
    \E r, q \in Admitted :
        /\ r # q /\ mem[r].Url = mem[q].Url
        /\ mem[r].Force /\ mem[q].Force
        /\ PastValidation(mem[r]) /\ mem[r].Step = StepPublishing
        /\ mem[q].Status = StatusInProgress /\ calls[q].Count = 2
        /\ \E w \in Workers : cur[w] = q /\ pc[w] = "fail"

\* the other Process of the URL of r that is persisted InProgress, if any
PersistedInProgress(q) ==
    /\ q \in Admitted /\ mem[q].ID # 0
    /\ processes[mem[q].ID].Status = StatusInProgress

\* C31 as stated: when both Processes of one URL are persisted InProgress
\* before either count query runs, both queries return 2. The first query from
\* such a state is covered by the Store row of the other; the second is the
\* query of a Process still waiting to count while the other has had 2.
BothQueriesReturnTwo ==
    [][\A w \in Workers :
         (pc[w] = "validate" /\ calls'[cur[w]].Count # calls[cur[w]].Count)
           => \A r \in Admitted :
                (/\ r # cur[w] /\ mem[r].Url = mem[cur[w]].Url
                 /\ \/ \E v \in Workers : cur[v] = r /\ pc[v] = "validate"
                    \/ calls[r].Count = 2)
                  => calls'[cur[w]].Count = 2]_vars
\* C31 amended: two Requests for one URL can both be rejected. A count query
\* returns 1 plus the number of other Processes of the URL persisted InProgress
\* at the moment of the query; so when both are persisted InProgress and both
\* queries run before either fail() has persisted Failed, both return 2, both
\* end Failed with ErrEpisodeInProgress and neither calls Download. When the
\* first has been persisted Failed before the second counts, the second query
\* returns 1.
BothCanBeRejected ==
    /\ [][\A w \in Workers :
            (pc[w] = "validate" /\ calls'[cur[w]].Count # calls[cur[w]].Count)
              => /\ \A r \in Admitted :
                      (r # cur[w] /\ mem[r].Url = mem[cur[w]].Url /\ PersistedInProgress(r))
                        => calls'[cur[w]].Count >= 2
                 /\ calls'[cur[w]].Count =
                      1 + Cardinality({r \in Admitted \ {cur[w]} :
                                         /\ mem[r].Url = mem[cur[w]].Url
                                         /\ PersistedInProgress(r)})]_vars
    /\ [](\A r, q \in Admitted :
            (r # q /\ mem[r].Url = mem[q].Url /\ calls[r].Count >= 2 /\ calls[q].Count >= 2)
              => /\ calls[r].Download = 0 /\ calls[q].Download = 0
                 /\ Done(r) => mem[r].Status = StatusFailed
                                 /\ mem[r].Error = ErrEpisodeInProgress)
BothCanBeRejectedWitness ==
    \E r, q \in Admitted :
        /\ r # q /\ mem[r].Url = mem[q].Url
        /\ Done(r) /\ Done(q)
        /\ calls[r].Count = 2 /\ calls[q].Count = 2
        /\ mem[r].Error = ErrEpisodeInProgress /\ mem[q].Error = ErrEpisodeInProgress
        /\ faults = 0

\* a Process the worker has finished with while its row is still in_progress
Stuck(r) ==
    /\ Done(r) /\ mem[r].ID # 0
    /\ processes[mem[r].ID].Status = StatusInProgress

\* C32 as stated: every Request for a URL admitted while the Store holds a row
\* of that URL left InProgress by a failed persist of fail() ends Failed with
\* ErrEpisodeInProgress.
StuckRowRejectsAll ==
    \A q \in Admitted :
        (requests[q].stuck /\ Done(q))
          => mem[q].Status = StatusFailed /\ mem[q].Error = ErrEpisodeInProgress
\* C32 amended: when the persist inside fail() fails for a Process persisted
\* InProgress, its row keeps Status=InProgress after the worker has finished
\* with it and for as long as the service runs. Every Request for that URL
\* admitted from then on ends Failed without a Download or Build call: with
\* ErrEpisodeInProgress when its count query returns (the count is then at
\* least 2, with Force too), and otherwise with the Store error of its own
\* first persist (ErrProcessUpsert) or of its count query (ErrProcessGetByURL).
StuckRowBlocksUrl ==
    /\ [][\A w \in Workers :
            (pc[w] = "fail" /\ pc'[w] # pc[w] /\ faults' # faults /\ mem[cur[w]].ID # 0
               /\ processes[mem[cur[w]].ID].Status = StatusInProgress)
              => LET r == cur[w]
                 IN /\ cur'[w] = 0 /\ mem'[r].ID = mem[r].ID
                    /\ processes'[mem[r].ID].Status = StatusInProgress
                    /\ mem'[r].Status = StatusFailed]_vars
    /\ [][\A r \in Admitted : Stuck(r) => Stuck(r)']_vars
    /\ [](\A r \in Admitted : Stuck(r) => mem[r].Status = StatusFailed)
    /\ [](\A q \in Admitted :
            requests[q].stuck
              => /\ calls[q].Download = 0 /\ calls[q].Build = 0
                 /\ mem[q].Status # StatusSuccess /\ mem[q].Episode = 0
                 /\ calls[q].Count # 1
                 /\ Done(q)
                      => /\ mem[q].Status = StatusFailed
                         /\ IF calls[q].Count >= 2
                            THEN mem[q].Error = ErrEpisodeInProgress
                            ELSE \/ /\ ErrorsIs(mem[q].Error, ErrProcessUpsert)
                                    /\ calls[q].Upsert = 2
                                 \/ ErrorsIs(mem[q].Error, ErrProcessGetByURL))
StuckRowBlocksUrlWitness ==
    \E r, q \in Admitted :
        /\ Stuck(r) /\ mem[r].Step = StepPublishing
        /\ requests[q].stuck /\ mem[q].Url = mem[r].Url /\ mem[q].Force
        /\ Done(q) /\ calls[q].Count = 2 /\ mem[q].Error = ErrEpisodeInProgress

\* Init() returned the error of a ProcessUpsert of its loop
InitUpsertFailed == initPc = "failed" /\ ErrorsIs(initErr, ErrProcessUpsert)

\* C33 as stated (for runs without the shutdown signal): when Init() returns
\* because ProcessUpsert failed for the k-th InProgress Process, the k-1 before
\* it are persisted Failed with ErrProcessInterrupted and the notification of
\* each is on the bus, and the k-th and later are InProgress in the Store.
InitPartialAllOnBus ==
    (InitUpsertFailed /\ ~ctxDone)
      => \A i \in 1..Len(processes) :
           IF i <= FinishedRows \/ i \in InitPending
           THEN processes[i] = StaleRow(i, FinishedRows)
           ELSE processes[i] = Recovered(i, FinishedRows) /\ OnBus(i) = 1
\* C33 amended: recovery is not atomic: when Init() returns because
\* ProcessUpsert failed for the k-th InProgress Process, the k-1 before it stay
\* persisted Failed with ErrProcessInterrupted and sendNotify was called once
\* for each, the k-th and later stay InProgress and unnotified, and nothing
\* changes afterwards. Of the k-1 notifications the bus holds at most one per
\* Process and, without the shutdown signal, the first notifyBuffer of them:
\* all of them only when k-1 <= notifyBuffer.
InitPartialRecovery ==
    /\ [](InitUpsertFailed
            => /\ initList # << >>
               /\ \A i \in 1..Len(processes) :
                    IF i <= FinishedRows \/ i \in InitPending
                    THEN /\ processes[i] = StaleRow(i, FinishedRows)
                         /\ Notified(i) = 0 /\ OnBus(i) = 0
                    ELSE /\ processes[i] = Recovered(i, FinishedRows)
                         /\ Notified(i) = 1 /\ OnBus(i) <= 1
               /\ \A i \in InitPending : processes[i].Status = StatusInProgress
               /\ Len(emitted[0]) = Cardinality(InterruptedRows)
               /\ ~ctxDone =>
                    /\ Len(notify) = IF Cardinality(InterruptedRows) <= notifyBuffer
                                     THEN Cardinality(InterruptedRows) ELSE notifyBuffer
                    /\ \A k \in 1..Len(notify) : notify[k].snap.ID = emitted[0][k].ID)
    /\ [][InitUpsertFailed => UNCHANGED <<processes, notify, emitted, initVars>>]_vars
InitPartialRecoveryWitness ==
    /\ InitUpsertFailed /\ ~ctxDone
    /\ Cardinality(InterruptedRows) = notifyBuffer + 1
    /\ Len(notify) = notifyBuffer
    /\ Cardinality(InitPending) = 1

\* C34: after the shutdown signal every worker eventually stops, given that
\* the Store, Downloader and Builder calls return: a worker only stops from
\* the receive, so one inside handle() first finishes that Process (it reaches
\* a terminal Status), and no step of handle() waits on the notify channel:
\* update() and fail() can always be taken, with the buffer full and the
\* consumer gone as well.
WorkersEventuallyStop ==
    /\ ctxDone ~> (\A w \in Workers : pc[w] = "stopped")
    /\ [][\A w \in Workers :
            (pc[w] # "stopped" /\ pc'[w] = "stopped")
              => /\ ctxDone /\ pc[w] = "idle" /\ cur[w] = 0
                 /\ \A r \in Admitted : Done(r) => Terminal(mem[r].Status)]_vars
    /\ [](\A w \in Workers :
            /\ pc[w] = "update" => ENABLED update(w)
            /\ pc[w] = "fail" => ENABLED fail(w))
    /\ [](\A w \in Workers : pc[w] = "stopped" => ctxDone)
WorkersEventuallyStopWitness ==
    /\ ctxDone
    /\ \A w \in Workers : pc[w] = "stopped"
    /\ Done(1) /\ Len(emitted[1]) >= 2 /\ Len(notify) = notifyBuffer
    /\ consumer = "stopped"

\* Download and Build succeeded for r and the persist of Status=Success failed
FinalPersistFailed(r) ==
    /\ Done(r) /\ calls[r].Build = 1
    /\ ErrorsIs(mem[r].Error, ErrProcessUpsert)
\* q is a Force=false Request for the URL of r admitted after handle() had
\* returned for r
LaterPlain(r, q) ==
    /\ q \in Admitted /\ r \in requests[q].after
    /\ mem[q].Url = mem[r].Url /\ ~mem[q].Force
\* none of the Store calls made for q failed
OwnStoreCallsOk(q) ==
    /\ ~ErrorsIs(mem[q].Error, ErrProcessUpsert)
    /\ ~ErrorsIs(mem[q].Error, ErrProcessGetByURL)
    /\ ~ErrorsIs(mem[q].Error, EpisodeGetByOriginalURL)

\* C35 as stated (for later Requests none of whose own Store calls fail): after
\* Download and Build succeeded and the final persist failed, the Process is
\* Failed with an ErrProcessUpsert error, its Episode is stored, no snapshot
\* with Status=Success was notified for it, and a later Force=false Request for
\* the URL ends Failed with ErrEpisodeExists.
LaterRequestFindsEpisode ==
    \A r \in Admitted :
        FinalPersistFailed(r)
          => /\ mem[r].Status = StatusFailed
             /\ mem[r].Episode # 0 /\ episodes[mem[r].Episode] = mem[r].Url
             /\ \A k \in 1..Len(emitted[r]) : emitted[r][k].Status # StatusSuccess
             /\ \A q \in Admitted :
                  (LaterPlain(r, q) /\ Done(q) /\ OwnStoreCallsOk(q))
                    => mem[q].Status = StatusFailed /\ mem[q].Error = ErrEpisodeExists
\* C35 amended: after Download and Build succeeded and the final persist
\* failed, the Process ends Failed with an error wrapping ErrProcessUpsert, its
\* Episode is stored and the feed was rebuilt; sendNotify was never called with
\* Status=Success for it and the Store never held it as Success. A later
\* Force=false Request for the URL never reaches Download and ends Failed:
\* with ErrEpisodeExists when its count query returns 1, with
\* ErrEpisodeInProgress when it returns more, as it does when the persist of
\* fail() failed too and the row stayed InProgress (in both cases unless a
\* Store call of its own fails first).
FinalPersistFailure ==
    /\ [][\A w \in Workers :
            (pc[w] = "update" /\ mem[cur[w]].Status = StatusSuccess
               /\ pc'[w] # pc[w] /\ faults' # faults)
              => /\ pc'[w] = "fail" /\ ErrorsIs(err'[w], ErrProcessUpsert)
                 /\ calls[cur[w]].Download = 1 /\ calls[cur[w]].Build = 1
                 /\ UNCHANGED <<processes, notify, emitted, episodes>>]_vars
    /\ [](\A r \in Admitted :
            FinalPersistFailed(r)
              => /\ mem[r].Status = StatusFailed /\ mem[r].Step = StepPublishing
                 /\ mem[r].Episode # 0 /\ episodes[mem[r].Episode] = mem[r].Url
                 /\ calls[r].Download = 1 /\ calls[r].Upsert = 5
                 /\ Len(emitted[r]) = 4 /\ LastEmitted(r).Status = StatusFailed
                 /\ \A k \in 1..Len(emitted[r]) : emitted[r][k].Status # StatusSuccess
                 /\ processes[mem[r].ID].Status # StatusSuccess
                 /\ \A q \in Admitted :
                      LaterPlain(r, q)
                        => /\ calls[q].Download = 0 /\ mem[q].Status # StatusSuccess
                           /\ (Done(q) /\ OwnStoreCallsOk(q))
                                => /\ mem[q].Status = StatusFailed
                                   /\ Stuck(r) => calls[q].Count >= 2
                                   /\ mem[q].Error = IF calls[q].Count >= 2
                                                     THEN ErrEpisodeInProgress
                                                     ELSE ErrEpisodeExists)
FinalPersistFailureWitness ==
    \E r, q \in Admitted :
        /\ FinalPersistFailed(r) /\ ~Stuck(r)
        /\ LaterPlain(r, q) /\ Done(q)
        /\ mem[q].Error = ErrEpisodeExists /\ calls[q].Count = 1

TypeOK ==
    /\ ctxDone \in BOOLEAN
    /\ faults \in 0..limit.faults
    /\ Len(notify) <= notifyBuffer
    /\ \A w \in Workers : cur[w] \in {0} \cup ReqIDs
====
